---- MODULE Spec2Model ----
(***************************************************************************)
(* Model of the AKS command layer of vscode-aks-tools:                     *)
(*   - the cluster helpers determineClusterState, startCluster and          *)
(*     stopCluster (commands/utils/clusters.ts), and                         *)
(*   - the kubectl command views of aksKubectlCommands.ts: the JSONPath     *)
(*     column getters, jsonPathTableGetter and the column modifiers of the  *)
(*     "get pods" view.                                                      *)
(* Every function is stateless, so the state of the model is the record of *)
(* the last invocation: the operation, its arguments (including what the   *)
(* external collaborators answered), what it returned and the calls it     *)
(* made on the control plane.                                               *)
(***************************************************************************)
EXTENDS Integers, Sequences, FiniteSets, TLC

VARIABLES op, args, ret, effects

vars == <<op, args, ret, effects>>

(***************************************************************************)
(* Bounds of the model.                                                     *)
(***************************************************************************)
\* longest agentPoolProfiles list returned by managedClusters.get
MaxPools ==
    3

\* most items (nodes, pods) in the JSON document kubectl prints
MaxItems ==
    3

\* most container statuses of one pod
MaxContainers ==
    3

\* the elapsed times tried reach this many multiples of each unit
MaxUnits ==
    2

(***************************************************************************)
(* Values.                                                                  *)
(***************************************************************************)
\* The JavaScript value undefined where a string is expected (an optional
\* field that is absent).  No string of the model has this text.
Undefined ==
    "undefined"

ClusterStartStopState ==
    [Started |-> "Started", Starting |-> "Starting",
     Stopped |-> "Stopped", Stopping |-> "Stopping"]

\* clusterState is typed string: the four enum values and a foreign one.
ClusterStates ==
    {ClusterStartStopState.Started, ClusterStartStopState.Starting,
     ClusterStartStopState.Stopped, ClusterStartStopState.Stopping, "Unknown"}

ClusterNames ==
    {"aks1", "aks2"}

\* ManagedCluster.provisioningState as the control plane reports it.
ProvisioningStates ==
    {"Succeeded", "Stopping", "Failed", "Starting", Undefined}

\* AgentPoolProfile.powerState?.code
PowerCodes ==
    {"Running", "Stopped", Undefined}

\* Texts of the exceptions the Azure SDK raises.
Exceptions ==
    {"RestError: unavailable"}

SeqsUpTo(S, n) ==
    UNION {[1..k -> S] : k \in 0..n}

\* ManagedCluster.agentPoolProfiles: optional, a list of node pools each
\* reduced to its powerState?.code.
AgentPoolProfiles ==
    {[defined |-> FALSE, pools |-> <<>>]}
        \cup {[defined |-> TRUE, pools |-> p] : p \in SeqsUpTo(PowerCodes, MaxPools)}

ClusterInfos ==
    [provisioningState : ProvisioningStates, agentPoolProfiles : AgentPoolProfiles]

\* Errorable<T>
Succeeded(result) ==
    [succeeded |-> TRUE, result |-> result]

Failed(error) ==
    [succeeded |-> FALSE, error |-> error]

InvokeError(clusterName, ex) ==
    "Error invoking " \o clusterName \o " managed cluster: " \o ex

StoppingError(clusterName) ==
    "Cluster " \o clusterName
        \o " is in Stopping state wait until cluster is fully stopped."

AlreadyStartedError(clusterName) ==
    "Cluster " \o clusterName \o " is already Started."

StoppedOrStoppingError(clusterName) ==
    "Cluster " \o clusterName \o " is either Stopped or in Stopping state."

\* What an invocation did besides returning: the begin...AndWait calls it
\* made, whether a promise it left un-awaited was rejected, and the
\* exception it raised to its caller ("" when it raised none).
NoEffects ==
    [startCalls |-> 0, stopCalls |-> 0, unhandledRejection |-> FALSE, thrown |-> ""]

Thrown(ex) ==
    [startCalls |-> 0, stopCalls |-> 0, unhandledRejection |-> FALSE, thrown |-> ex]

(***************************************************************************)
(* determineClusterState                                                    *)
(***************************************************************************)
EveryPowerStateOfSomePool(profiles, code) ==
    /\ profiles.defined
    /\ Len(profiles.pools) > 0
    /\ \A i \in 1..Len(profiles.pools) : profiles.pools[i] = code

\* agentPoolProfiles?.every((nodePool) => nodePool.powerState?.code === code)
\* : undefined (falsy) without a list, true for the empty list.
EveryPowerState(profiles, code) ==
    /\ profiles.defined
    /\ \A i \in 1..Len(profiles.pools) : profiles.pools[i] = code

DetermineMissingStoppingGuard(clusterName, response) ==
    IF response.rejected
    THEN Failed(InvokeError(clusterName, response.ex))
    ELSE IF EveryPowerState(response.clusterInfo.agentPoolProfiles, "Stopped")
    THEN Succeeded(ClusterStartStopState.Stopped)
    ELSE IF /\ response.clusterInfo.provisioningState = "Succeeded"
            /\ EveryPowerState(response.clusterInfo.agentPoolProfiles, "Running")
    THEN Succeeded(ClusterStartStopState.Started)
    ELSE IF response.clusterInfo.provisioningState = "Stopping"
    THEN Succeeded(ClusterStartStopState.Stopping)
    ELSE Succeeded(ClusterStartStopState.Starting)

DetermineStoppedNeedsSucceeded(clusterName, response) ==
    IF response.rejected
    THEN Failed(InvokeError(clusterName, response.ex))
    ELSE IF /\ response.clusterInfo.provisioningState = "Succeeded"
            /\ EveryPowerState(response.clusterInfo.agentPoolProfiles, "Stopped")
    THEN Succeeded(ClusterStartStopState.Stopped)
    ELSE IF /\ response.clusterInfo.provisioningState = "Succeeded"
            /\ EveryPowerState(response.clusterInfo.agentPoolProfiles, "Running")
    THEN Succeeded(ClusterStartStopState.Started)
    ELSE IF response.clusterInfo.provisioningState = "Stopping"
    THEN Succeeded(ClusterStartStopState.Stopping)
    ELSE Succeeded(ClusterStartStopState.Starting)

DetermineStartedIgnoresPools(clusterName, response) ==
    IF response.rejected
    THEN Failed(InvokeError(clusterName, response.ex))
    ELSE IF /\ response.clusterInfo.provisioningState # "Stopping"
            /\ EveryPowerState(response.clusterInfo.agentPoolProfiles, "Stopped")
    THEN Succeeded(ClusterStartStopState.Stopped)
    ELSE IF response.clusterInfo.provisioningState = "Succeeded"
    THEN Succeeded(ClusterStartStopState.Started)
    ELSE IF response.clusterInfo.provisioningState = "Stopping"
    THEN Succeeded(ClusterStartStopState.Stopping)
    ELSE Succeeded(ClusterStartStopState.Starting)

\* response is what the awaited managedClusters.get did: it was rejected
\* with ex, or it was fulfilled with clusterInfo.
determineClusterState(clusterName, response) ==
    IF response.rejected
    THEN Failed(InvokeError(clusterName, response.ex))
    ELSE IF /\ response.clusterInfo.provisioningState # "Stopping"
            /\ EveryPowerState(response.clusterInfo.agentPoolProfiles, "Stopped")
    THEN Succeeded(ClusterStartStopState.Stopped)
    ELSE IF /\ response.clusterInfo.provisioningState = "Succeeded"
            /\ EveryPowerState(response.clusterInfo.agentPoolProfiles, "Running")
    THEN Succeeded(ClusterStartStopState.Started)
    ELSE IF response.clusterInfo.provisioningState = "Stopping"
    THEN Succeeded(ClusterStartStopState.Stopping)
    ELSE Succeeded(ClusterStartStopState.Starting)

GetResponses ==
    [rejected : {FALSE}, ex : {""}, clusterInfo : ClusterInfos]
        \cup [rejected : {TRUE}, ex : Exceptions,
              clusterInfo : {[provisioningState |-> Undefined,
                              agentPoolProfiles |-> [defined |-> FALSE, pools |-> <<>>]]}]

DetermineClusterState ==
    /\ op = "none"
    /\ \E clusterName \in ClusterNames, response \in GetResponses :
            /\ op' = "determineClusterState"
            /\ args' = [clusterName |-> clusterName, response |-> response]
            /\ ret' = determineClusterState(clusterName, response)
            /\ effects' = NoEffects

(***************************************************************************)
(* startCluster, stopCluster                                                *)
(***************************************************************************)
\* What containerClient.managedClusters.begin...AndWait does when it is
\* invoked: it throws before returning a promise, or it returns a promise
\* that is later fulfilled or rejected.  The promise is not awaited.
CallOutcomes ==
    {"fulfils", "rejects", "throws"}

Issued(kind, call) ==
    [startCalls |-> IF kind = "start" THEN 1 ELSE 0,
     stopCalls |-> IF kind = "stop" THEN 1 ELSE 0,
     unhandledRejection |-> call.outcome = "rejects",
     thrown |-> ""]

StartAlsoWhenStopping(clusterName, clusterState, call) ==
    IF clusterState \in {ClusterStartStopState.Stopped, ClusterStartStopState.Stopping}
    THEN [ret |-> IF call.outcome = "throws"
                  THEN Failed(InvokeError(clusterName, call.ex))
                  ELSE Succeeded("Start cluster succeeded."),
          effects |-> Issued("start", call)]
    ELSE [ret |-> Failed(AlreadyStartedError(clusterName)), effects |-> NoEffects]

\* The result and the effects of startCluster(target, clusterName, clusterState).
startCluster(clusterName, clusterState, call) ==
    IF clusterState = ClusterStartStopState.Stopped
    THEN [ret |-> IF call.outcome = "throws"
                  THEN Failed(InvokeError(clusterName, call.ex))
                  ELSE Succeeded("Start cluster succeeded."),
          effects |-> Issued("start", call)]
    ELSE IF clusterState = ClusterStartStopState.Stopping
    THEN [ret |-> Failed(StoppingError(clusterName)), effects |-> NoEffects]
    ELSE [ret |-> Failed(AlreadyStartedError(clusterName)), effects |-> NoEffects]

StopUnlessStopped(clusterName, clusterState, call) ==
    IF clusterState \notin {ClusterStartStopState.Stopped, ClusterStartStopState.Stopping}
    THEN [ret |-> IF call.outcome = "throws"
                  THEN Failed(InvokeError(clusterName, call.ex))
                  ELSE Succeeded("Stop cluster succeeded."),
          effects |-> Issued("stop", call)]
    ELSE [ret |-> Failed(StoppedOrStoppingError(clusterName)), effects |-> NoEffects]

\* The result and the effects of stopCluster(target, clusterName, clusterState).
stopCluster(clusterName, clusterState, call) ==
    IF clusterState = ClusterStartStopState.Started
    THEN [ret |-> IF call.outcome = "throws"
                  THEN Failed(InvokeError(clusterName, call.ex))
                  ELSE Succeeded("Stop cluster succeeded."),
          effects |-> Issued("stop", call)]
    ELSE [ret |-> Failed(StoppedOrStoppingError(clusterName)), effects |-> NoEffects]

Calls ==
    [outcome : {"fulfils"}, ex : {""}]
        \cup [outcome : {"rejects", "throws"}, ex : Exceptions]

StartCluster ==
    /\ op = "none"
    /\ \E clusterName \in ClusterNames, clusterState \in ClusterStates, call \in Calls :
            /\ op' = "startCluster"
            /\ args' = [clusterName |-> clusterName, clusterState |-> clusterState,
                        call |-> call]
            /\ ret' = startCluster(clusterName, clusterState, call).ret
            /\ effects' = startCluster(clusterName, clusterState, call).effects

StopCluster ==
    /\ op = "none"
    /\ \E clusterName \in ClusterNames, clusterState \in ClusterStates, call \in Calls :
            /\ op' = "stopCluster"
            /\ args' = [clusterName |-> clusterName, clusterState |-> clusterState,
                        call |-> call]
            /\ ret' = stopCluster(clusterName, clusterState, call).ret
            /\ effects' = stopCluster(clusterName, clusterState, call).effects

(***************************************************************************)
(* JSON values and kubectl output                                           *)
(***************************************************************************)
Str(s) ==
    [type |-> "string", s |-> s]

Num(n) ==
    [type |-> "number", n |-> n]

\* the value of a property that is not there
Absent ==
    [type |-> "undefined"]

\* JSON.stringify(value): a string is quoted, a number is printed in
\* decimal, and undefined gives undefined (no text at all).
JSONStringify(v) ==
    CASE v.type = "string" -> "\"" \o v.s \o "\""
      [] v.type = "number" -> ToString(v.n)
      [] OTHER -> Undefined

NamePath ==
    "$.items[*].metadata.name"

RestartsPath ==
    "$.items[*].status.containerStatuses[0].restartCount"

\* An item of the document, reduced to the two properties the paths above
\* select; a pod without containerStatuses has no restartCount.
Items ==
    [name : {Absent, Str("a"), Str("b")}, restartCount : {Absent, Num(0), Num(7)}]

Docs ==
    [items : SeqsUpTo(Items, MaxItems)]

\* The text of a command's output: the JSON text of a document, or text
\* that is not JSON.
CmdOutputs ==
    [valid : {TRUE}, json : Docs] \cup {[valid |-> FALSE, json |-> [items |-> <<>>]]}

SyntaxError ==
    "SyntaxError: Unexpected token in JSON"

\* JSON.parse(cmdOutput)
JSONParse(cmdOutput) ==
    IF cmdOutput.valid
    THEN [threw |-> FALSE, ex |-> "", value |-> cmdOutput.json]
    ELSE [threw |-> TRUE, ex |-> SyntaxError, value |-> [items |-> <<>>]]

Select(item, jsonPath) ==
    IF jsonPath = NamePath THEN item.name ELSE item.restartCount

\* JSONPath({ path: jsonPath, json: obj }) over the first n items: the
\* selected property of each item that has it, in document order.
RECURSIVE JSONPathUpTo(_, _, _)
JSONPathUpTo(jsonPath, obj, n) ==
    IF n = 0
    THEN <<>>
    ELSE LET before == JSONPathUpTo(jsonPath, obj, n - 1)
             v == Select(obj.items[n], jsonPath)
         IN  IF v = Absent THEN before ELSE Append(before, v)

JSONPath(jsonPath, obj) ==
    JSONPathUpTo(jsonPath, obj, Len(obj.items))

\* getJsonPathCol(jsonPath)(cmdOutput): the column, or the exception of
\* JSON.parse.
getJsonPathCol(jsonPath, cmdOutput) ==
    LET obj == JSONParse(cmdOutput)
    IN  IF obj.threw
        THEN [threw |-> TRUE, ex |-> obj.ex, value |-> <<>>]
        ELSE [threw |-> FALSE, ex |-> "", value |-> JSONPath(jsonPath, obj.value)]

\* ICol: a column name and its getter, getJsonPathCol(jsonPath).
ColSpecs ==
    {[name |-> "Name", jsonPath |-> NamePath],
     [name |-> "Restarts", jsonPath |-> RestartsPath]}

\* The column lists handed to jsonPathTableGetter: both call sites name
\* their columns differently.
ColLists ==
    {cols \in SeqsUpTo(ColSpecs, Cardinality(ColSpecs)) :
        \A i, j \in 1..Len(cols) : cols[i].name = cols[j].name => i = j}

(***************************************************************************)
(* jsonPathTableGetter                                                      *)
(***************************************************************************)
\* columns[col][row] with the zero-based row: undefined past the end.
At(column, row) ==
    IF row + 1 <= Len(column) THEN column[row + 1] ELSE Absent

\* rowObj after the inner loop has assigned the first n columns.
RECURSIVE RowObj(_, _, _, _)
RowObj(cols, columns, row, n) ==
    IF n = 0
    THEN [x \in {} |-> ""]
    ELSE LET prev == RowObj(cols, columns, row, n - 1)
             cell == JSONStringify(At(columns[n], row))
         IN  [x \in (DOMAIN prev) \cup {cols[n].name} |->
                 IF x = cols[n].name THEN cell ELSE prev[x]]

Max(S) ==
    CHOOSE x \in S : \A y \in S : y <= x

\* The table of the columns, with the number of rows given.
TableOf(cols, columns, rows) ==
    [table |-> [r \in 1..rows |-> RowObj(cols, columns, r - 1, Len(columns))],
     headers |-> [c \in 1..Len(cols) |-> cols[c].name]]

JsonPathTableGetterMaxRows(cols, cmdOutput) ==
    LET got == [c \in 1..Len(cols) |-> getJsonPathCol(cols[c].jsonPath, cmdOutput)]
        columns == [c \in 1..Len(cols) |-> got[c].value]
    IN  IF \E c \in 1..Len(cols) : got[c].threw
        THEN [threw |-> TRUE, ex |-> SyntaxError, value |-> TableOf(<<>>, <<>>, 0)]
        ELSE [threw |-> FALSE, ex |-> "",
              value |-> TableOf(cols, columns,
                                Max({0} \cup {Len(columns[c]) : c \in 1..Len(cols)}))]

\* jsonPathTableGetter(cols)(cmdOutput): { table, headers }, or the
\* exception of the first column getter.  columns[0]?.length is undefined
\* without columns, and the row loop then does not run.
jsonPathTableGetter(cols, cmdOutput) ==
    LET got == [c \in 1..Len(cols) |-> getJsonPathCol(cols[c].jsonPath, cmdOutput)]
        columns == [c \in 1..Len(cols) |-> got[c].value]
    IN  IF \E c \in 1..Len(cols) : got[c].threw
        THEN [threw |-> TRUE, ex |-> got[1].ex, value |-> TableOf(<<>>, <<>>, 0)]
        ELSE [threw |-> FALSE, ex |-> "",
              value |-> TableOf(cols, columns,
                                IF Len(columns) = 0 THEN 0 ELSE Len(columns[1]))]

JsonPathTableGetter ==
    /\ op = "none"
    /\ \E cols \in ColLists, cmdOutput \in CmdOutputs :
           LET got == jsonPathTableGetter(cols, cmdOutput)
           IN  /\ op' = "jsonPathTableGetter"
               /\ args' = [cols |-> cols, cmdOutput |-> cmdOutput]
               /\ ret' = got.value
               /\ effects' = IF got.threw THEN Thrown(got.ex) ELSE NoEffects

(***************************************************************************)
(* aksKubectlCommands                                                       *)
(***************************************************************************)
\* The Name and Restarts columns of the table of the "get pods" view.
PodsCols ==
    <<[name |-> "Name", jsonPath |-> NamePath],
      [name |-> "Restarts", jsonPath |-> RestartsPath]>>

\* stripAnsi(stdout): the text without its ANSI escape codes.
stripAnsi(stdout) ==
    stdout.text

\* getBasicWebviewContent / getTableWebviewGetter(tableGetter): the template
\* and the data handed to getRenderedContent, or the exception of the table
\* getter.
webviewGetter(view, cmdOutput, commandRun) ==
    IF view = "basic"
    THEN [threw |-> FALSE, ex |-> "",
          value |-> [template |-> "akskubectlcommandbasic.html",
                     data |-> [name |-> commandRun, command |-> cmdOutput]]]
    ELSE LET got == jsonPathTableGetter(PodsCols, cmdOutput)
         IN  [threw |-> got.threw, ex |-> got.ex,
              value |-> [template |-> "akskubectlcommandtable.html",
                         data |-> [name |-> commandRun, table |-> got.value.table,
                                   headers |-> got.value.headers]]]

NoHtml ==
    [template |-> "", data |-> [name |-> ""]]

\* What the user sees after the command: the message shown, whether the
\* web view was created, and its html.
Outcome(kind, text, created, html) ==
    [message |-> [kind |-> kind, text |-> text], webviewCreated |-> created,
     html |-> html]

\* The steps of aksKubectlCommands that can end the command early, in the
\* order of the code; env.failAt is the first collaborator that fails
\* ("none" when all succeed) and env.error its Errorable's error.
aksKubectlCommands(env, command, view) ==
    IF env.failAt = "kubectl"
    THEN [ret |-> Outcome("warning", "Kubectl is unavailable.", FALSE, NoHtml),
          effects |-> NoEffects]
    ELSE IF env.failAt \in {"cluster", "extensionPath", "clusterKubeConfig", "kubectlresp"}
    THEN [ret |-> Outcome("error", env.error, FALSE, NoHtml), effects |-> NoEffects]
    ELSE LET resultoutput == stripAnsi(env.stdout)
             html == webviewGetter(view, resultoutput, command)
         IN  IF html.threw
             THEN [ret |-> Outcome("none", "", TRUE, NoHtml), effects |-> Thrown(html.ex)]
             ELSE [ret |-> Outcome("none", "", TRUE, html.value), effects |-> NoEffects]

Envs ==
    [failAt : {"kubectl"}, error : {""},
     stdout : {[ansi |-> FALSE, text |-> [valid |-> FALSE, json |-> [items |-> <<>>]]]}]
        \cup [failAt : {"cluster", "extensionPath", "clusterKubeConfig", "kubectlresp"},
              error : {"failed"},
              stdout : {[ansi |-> FALSE, text |-> [valid |-> FALSE, json |-> [items |-> <<>>]]]}]
        \cup [failAt : {"none"}, error : {""}, stdout : [ansi : BOOLEAN, text : CmdOutputs]]

\* The five commands: three show the output as text, two as a table.
Commands ==
    {[command |-> "cluster-info", view |-> "basic"],
     [command |-> "get pods --all-namespaces -o json", view |-> "table"]}

AksKubectlCommands ==
    /\ op = "none"
    /\ \E env \in Envs, c \in Commands :
            /\ op' = "aksKubectlCommands"
            /\ args' = [env |-> env, command |-> c.command, view |-> c.view]
            /\ ret' = aksKubectlCommands(env, c.command, c.view).ret
            /\ effects' = aksKubectlCommands(env, c.command, c.view).effects

(***************************************************************************)
(* The Status modifier of the "get pods" view                               *)
(***************************************************************************)
\* if (x): a string is truthy unless it is undefined or empty
Truthy(x) ==
    x \notin {Undefined, ""}

Reasons ==
    {Undefined, "", "CrashLoopBackOff", "ContainerCreating"}

\* A container status reduced to what the modifier reads: whether the
\* object is null, whether it has state.running, and state.waiting.reason.
NullStatus ==
    [isNull |-> TRUE, running |-> FALSE, reason |-> Undefined]

ContainerStatuses ==
    {NullStatus} \cup [isNull : {FALSE}, running : BOOLEAN, reason : Reasons]

\* state after the loop has visited the first n objects
RECURSIVE StatusFirstWinsUpTo(_, _)
StatusFirstWinsUpTo(objs, n) ==
    IF n = 0
    THEN "Running"
    ELSE LET state == StatusFirstWinsUpTo(objs, n - 1)
             obj == objs[n]
         IN  IF ~obj.isNull /\ obj.running
             THEN state
             ELSE IF ~obj.isNull /\ Truthy(obj.reason) /\ state = "Running"
             THEN obj.reason
             ELSE state

StatusFirstWins(objs) ==
    StatusFirstWinsUpTo(objs, Len(objs))

RECURSIVE StatusUpTo(_, _)
StatusUpTo(objs, n) ==
    IF n = 0
    THEN "Running"
    ELSE LET state == StatusUpTo(objs, n - 1)
             obj == objs[n]
         IN  IF ~obj.isNull /\ obj.running
             THEN state
             ELSE IF ~obj.isNull /\ Truthy(obj.reason)
             THEN obj.reason
             ELSE state

StatusModifier(objs) ==
    StatusUpTo(objs, Len(objs))

ApplyStatusModifier ==
    /\ op = "none"
    /\ \E objs \in SeqsUpTo(ContainerStatuses, MaxContainers) :
            /\ op' = "statusModifier"
            /\ args' = [val |-> objs]
            /\ ret' = StatusModifier(objs)
            /\ effects' = NoEffects

(***************************************************************************)
(* The Age modifier of the "get pods" view                                  *)
(***************************************************************************)
MsPerMinute ==
    1000 * 60

MsPerHour ==
    1000 * 60 * 60

MsPerDay ==
    1000 * 60 * 60 * 24

\* `${n} ${unit}${n > 1 ? "s" : ""}`
Render(n, unit) ==
    ToString(n) \o " " \o unit \o (IF n > 1 THEN "s" ELSE "")

AgeAlwaysPlural(obj, now) ==
    IF obj.started.kind \in {"absent", "empty", "invalid"}
    THEN "0d"
    ELSE LET date == obj.started.ms
             days == (now - date) \div MsPerDay
             hours == (now - date) \div MsPerHour
             minutes == (now - date) \div MsPerMinute
         IN  IF days > 0 THEN ToString(days) \o " days"
             ELSE IF hours > 0 THEN ToString(hours) \o " hours"
             ELSE IF minutes > 0 THEN ToString(minutes) \o " minutes"
             ELSE "0d"

\* obj.started is obj?.running?.startedAt: absent, the empty string, a
\* string Date.parse turns into NaN, or a date of ms milliseconds.  With NaN
\* every comparison is false.  Math.floor of the quotient is the floor
\* division.
AgeModifier(obj, now) ==
    IF obj.started.kind \in {"absent", "empty"}
    THEN "0d"
    ELSE IF obj.started.kind = "invalid"
    THEN "0d"
    ELSE LET date == obj.started.ms
             days == (now - date) \div MsPerDay
             hours == (now - date) \div MsPerHour
             minutes == (now - date) \div MsPerMinute
         IN  IF days > 0 THEN Render(days, "day")
             ELSE IF hours > 0 THEN Render(hours, "hour")
             ELSE IF minutes > 0 THEN Render(minutes, "minute")
             ELSE "0d"

\* Elapsed times around the multiples of each unit, past and future, and
\* the 25 hours and 30 minutes of the examples.
Elapsed ==
    {sign * (k * unit + d) :
        sign \in {1, -1}, k \in 0..MaxUnits, d \in {-1, 0, 1},
        unit \in {MsPerMinute, MsPerHour, MsPerDay}}
        \cup {25 * MsPerHour, 30 * MsPerMinute, 59 * MsPerMinute, 23 * MsPerHour}

\* Date.now(), in milliseconds from an origin close enough to the dates for
\* the model's integers.
Nows ==
    {0, 999}

AgeStates ==
    [started : [kind : {"absent", "empty", "invalid"}, ms : {0}]]
        \cup {[started |-> [kind |-> "date", ms |-> now - e]] :
                 now \in Nows, e \in Elapsed}

ApplyAgeModifier ==
    /\ op = "none"
    /\ \E obj \in AgeStates, now \in Nows :
            /\ op' = "ageModifier"
            /\ args' = [val |-> obj, now |-> now]
            /\ ret' = AgeModifier(obj, now)
            /\ effects' = NoEffects

(***************************************************************************)
(* Specification                                                            *)
(***************************************************************************)
Init ==
    /\ op = "none"
    /\ args = [clusterName |-> Undefined]
    /\ ret = [succeeded |-> TRUE, result |-> Undefined]
    /\ effects = NoEffects

\* The caller has taken the result.  No function keeps state between two
\* invocations, so the next invocation starts from the initial state.
Return ==
    /\ op # "none"
    /\ op' = "none"
    /\ args' = [clusterName |-> Undefined]
    /\ ret' = [succeeded |-> TRUE, result |-> Undefined]
    /\ effects' = NoEffects

Next ==
    \/ DetermineClusterState
    \/ StartCluster
    \/ StopCluster
    \/ JsonPathTableGetter
    \/ AksKubectlCommands
    \/ ApplyStatusModifier
    \/ ApplyAgeModifier
    \/ Return

Spec ==
    Init /\ [][Next]_vars

(***************************************************************************)
(* Properties of determineClusterState                                      *)
(***************************************************************************)
\* The last invocation was determineClusterState and managedClusters.get
\* answered with the cluster.
Determined ==
    op = "determineClusterState" /\ ~args.response.rejected

ProvisioningState ==
    args.response.clusterInfo.provisioningState

Pools ==
    args.response.clusterInfo.agentPoolProfiles.pools

\* The cluster has a list of node pools, and every one has this power code.
AllPools(code) ==
    /\ args.response.clusterInfo.agentPoolProfiles.defined
    /\ {Pools[i] : i \in 1..Len(Pools)} \subseteq {code}

NonEmptyPools ==
    /\ args.response.clusterInfo.agentPoolProfiles.defined
    /\ Len(Pools) > 0

\* C1: for every provisioningState other than "Stopping" (unexpected values
\* such as "Failed" included) and every non-empty list of node pools whose
\* power-state codes are all "Stopped", determineClusterState succeeds with
\* Stopped.
C1_AllStoppedIsStopped ==
    (Determined /\ ProvisioningState # "Stopping" /\ NonEmptyPools /\ AllPools("Stopped"))
        => ret = Succeeded("Stopped")

C1_Witness ==
    /\ Determined
    /\ ProvisioningState = "Failed"
    /\ Pools = <<"Stopped", "Stopped">>
    /\ ret = Succeeded("Stopped")

\* C2: provisioningState "Succeeded" with a non-empty list of node pools all
\* "Running" gives a success carrying Started, and no other input gives
\* Started.
C2_StartedExactly ==
    Determined =>
        ((ret.succeeded /\ ret.result = "Started")
            <=> (ProvisioningState = "Succeeded" /\ NonEmptyPools /\ AllPools("Running")))

C2_Witness ==
    /\ Determined
    /\ ProvisioningState = "Succeeded"
    /\ Pools = <<"Running", "Running">>
    /\ ret = Succeeded("Started")

\* C3 as claimed: with provisioningState "Stopping" the result is Stopping,
\* except that it is Stopped when every node pool is "Stopped".
C3_StoppedTakesPriority ==
    (Determined /\ ProvisioningState = "Stopping")
        => ret = (IF NonEmptyPools /\ AllPools("Stopped")
                  THEN Succeeded("Stopped")
                  ELSE Succeeded("Stopping"))

\* C3 as amended: with provisioningState "Stopping" the result is a success
\* carrying Stopping for any node-pool states, also when every node pool is
\* "Stopped" (the Stopped case requires provisioningState other than
\* "Stopping").
C3_StoppingIsStopping ==
    (Determined /\ ProvisioningState = "Stopping") => ret = Succeeded("Stopping")

C3_Witness ==
    /\ Determined
    /\ ProvisioningState = "Stopping"
    /\ Pools = <<"Stopped", "Stopped">>
    /\ ret = Succeeded("Stopping")

\* The cluster has a list of node pools and the list is empty.
EmptyPools ==
    /\ args.response.clusterInfo.agentPoolProfiles.defined
    /\ Len(Pools) = 0

\* C11: on an EMPTY node-pool list determineClusterState gives Stopped for
\* every provisioningState other than "Stopping" ("Succeeded" included, so
\* no pools never gives Started) and Stopping for provisioningState
\* "Stopping"; the Starting fallback is never reached with an empty list.
C11_EmptyPoolsAreStopped ==
    (Determined /\ EmptyPools) =>
        /\ ProvisioningState # "Stopping" => ret = Succeeded("Stopped")
        /\ ProvisioningState = "Stopping" => ret = Succeeded("Stopping")
        /\ ret.result \notin {"Started", "Starting"}

C11_Witness ==
    /\ Determined
    /\ EmptyPools
    /\ ProvisioningState = "Succeeded"
    /\ ret = Succeeded("Stopped")

(***************************************************************************)
(* Properties of startCluster and stopCluster                               *)
(***************************************************************************)
\* C4: startCluster invokes the control-plane start call exactly when the
\* supplied state is Stopped, and then returns success once the call has
\* returned its promise; for Stopping it returns the 'wait until fully
\* stopped' failure, for Starting, Started and any other value the 'already
\* Started' failure, and in both failure cases it invokes no start call.  (A
\* call that fails is the subject of C9.)
C4_StartGate ==
    op = "startCluster" =>
        /\ effects.startCalls = (IF args.clusterState = "Stopped" THEN 1 ELSE 0)
        /\ effects.stopCalls = 0
        /\ (args.clusterState = "Stopped" /\ args.call.outcome # "throws")
              => ret = Succeeded("Start cluster succeeded.")
        /\ args.clusterState = "Stopping"
              => ret = Failed(StoppingError(args.clusterName))
        /\ args.clusterState \notin {"Stopped", "Stopping"}
              => ret = Failed(AlreadyStartedError(args.clusterName))

C4_Witness ==
    /\ op = "startCluster"
    /\ args.clusterState = "Stopped"
    /\ effects.startCalls = 1
    /\ ret.succeeded

C4_WitnessRefused ==
    /\ op = "startCluster"
    /\ args.clusterState = "Stopping"
    /\ effects.startCalls = 0
    /\ ~ret.succeeded

\* C5: stopCluster invokes the control-plane stop call exactly when the
\* supplied state is Started, and then returns success once the call has
\* returned its promise; for Stopped, Stopping and also Starting it returns
\* the 'stopped or stopping' failure and invokes no stop call.
C5_StopGate ==
    op = "stopCluster" =>
        /\ effects.stopCalls = (IF args.clusterState = "Started" THEN 1 ELSE 0)
        /\ effects.startCalls = 0
        /\ (args.clusterState = "Started" /\ args.call.outcome # "throws")
              => ret = Succeeded("Stop cluster succeeded.")
        /\ args.clusterState # "Started"
              => ret = Failed(StoppedOrStoppingError(args.clusterName))

C5_Witness ==
    /\ op = "stopCluster"
    /\ args.clusterState = "Starting"
    /\ effects.stopCalls = 0
    /\ ret = Failed(StoppedOrStoppingError(args.clusterName))

\* C9: when the state permits the request and the control-plane call fails,
\* by throwing or by rejecting its promise, startCluster and stopCluster
\* return an error result: success is returned only if the call did not
\* fail.
C9_CallFailurePropagates ==
    (/\ op \in {"startCluster", "stopCluster"}
     /\ effects.startCalls + effects.stopCalls = 1
     /\ args.call.outcome \in {"rejects", "throws"})
        => ~ret.succeeded

(***************************************************************************)
(* Properties of jsonPathTableGetter and aksKubectlCommands                 *)
(***************************************************************************)
\* The table getter was applied to JSON text and at least one column.
TableBuilt ==
    /\ op = "jsonPathTableGetter"
    /\ args.cmdOutput.valid
    /\ Len(args.cols) > 0

DocItems ==
    args.cmdOutput.json.items

\* Item j of the document has the property column c selects.
Has(j, c) ==
    Select(DocItems[j], args.cols[c].jsonPath) # Absent

\* The length of column c's extracted sequence.
ColLen(c) ==
    Cardinality({j \in 1..Len(DocItems) : Has(j, c)})

\* The JSON text of the values of the documents.
Text(v) ==
    CASE v = Str("a") -> "\"a\""
      [] v = Str("b") -> "\"b\""
      [] v = Num(0) -> "0"
      [] v = Num(7) -> "7"

\* The cell of row r (from 1) in column c: the JSON text of the r-th value
\* column c extracts, and undefined when the column has fewer values.
Cell(r, c) ==
    IF r > ColLen(c)
    THEN Undefined
    ELSE LET j == CHOOSE j \in 1..Len(DocItems) :
                      /\ Has(j, c)
                      /\ Cardinality({i \in 1..j : Has(i, c)}) = r
         IN  Text(Select(DocItems[j], args.cols[c].jsonPath))

\* C6: jsonPathTableGetter produces as many rows as the FIRST column's
\* extracted sequence has values, not the maximum over the columns (with
\* column lengths 2 and 3 it produces 2 rows and drops the later column's
\* last value); cell (r, c) is taken from index r of column c, and the
\* headers are the column names in specification order.
C6_RowsFollowFirstColumn ==
    TableBuilt =>
        /\ Len(ret.table) = ColLen(1)
        /\ ret.headers = [c \in 1..Len(args.cols) |-> args.cols[c].name]
        /\ \A r \in 1..Len(ret.table) :
              /\ DOMAIN ret.table[r] = {args.cols[c].name : c \in 1..Len(args.cols)}
              /\ \A c \in 1..Len(args.cols) :
                    ret.table[r][args.cols[c].name] = Cell(r, c)

C6_Witness ==
    /\ TableBuilt
    /\ Len(args.cols) = 2
    /\ ColLen(1) = 2
    /\ ColLen(2) = 3
    /\ Len(ret.table) = 2
    /\ ret.table[2][args.cols[2].name] = Cell(2, 2)

\* The last invocation handed text that is not JSON to a column getter.
MalformedParsed ==
    \/ /\ op = "jsonPathTableGetter"
       /\ ~args.cmdOutput.valid
       /\ Len(args.cols) > 0
    \/ /\ op = "aksKubectlCommands"
       /\ args.env.failAt = "none"
       /\ args.view = "table"
       /\ ~args.env.stdout.text.valid

\* C7: command output that is not JSON, given to column extraction or table
\* building, yields a failure result and no raised exception: no operation
\* throws to its caller.
C7_MalformedIsFailureResult ==
    MalformedParsed => effects.thrown = ""

(***************************************************************************)
(* Properties of the column modifiers                                       *)
(***************************************************************************)
Elapsed8 ==
    args.now - args.val.started.ms

\* The text for N whole units: "1 day", "2 days".
Whole(N, unit) ==
    IF N = 1 THEN "1 " \o unit ELSE ToString(N) \o " " \o unit \o "s"

\* e holds exactly N whole units of this many milliseconds, N in 1..most.
Holds(e, N, ms) ==
    N * ms <= e /\ e < (N + 1) * ms

\* C8: with running.startedAt present and elapsed = now - startedAt, the Age
\* modifier gives the largest whole unit >= 1 among days, hours and minutes,
\* as "N day(s)" / "N hour(s)" / "N minute(s)" with the plural s exactly when
\* N > 1 (25 hours gives "1 day", 30 minutes "30 minutes"); when the elapsed
\* time is under one minute or negative, or the timestamp is absent, it
\* gives the literal "0d".
C8_AgeIsLargestWholeUnit ==
    op = "ageModifier" =>
        IF args.val.started.kind \in {"absent", "empty"}
        THEN ret = "0d"
        ELSE args.val.started.kind = "date" =>
            /\ Elapsed8 >= MsPerDay
                  => \E N \in 1..(MaxUnits + 2) :
                        Holds(Elapsed8, N, MsPerDay) /\ ret = Whole(N, "day")
            /\ (Elapsed8 < MsPerDay /\ Elapsed8 >= MsPerHour)
                  => \E N \in 1..23 :
                        Holds(Elapsed8, N, MsPerHour) /\ ret = Whole(N, "hour")
            /\ (Elapsed8 < MsPerHour /\ Elapsed8 >= MsPerMinute)
                  => \E N \in 1..59 :
                        Holds(Elapsed8, N, MsPerMinute) /\ ret = Whole(N, "minute")
            /\ Elapsed8 < MsPerMinute => ret = "0d"
            /\ Elapsed8 = 25 * MsPerHour => ret = "1 day"
            /\ Elapsed8 = 30 * MsPerMinute => ret = "30 minutes"

C8_Witness ==
    /\ op = "ageModifier"
    /\ args.val.started.kind = "date"
    /\ Elapsed8 = 25 * MsPerHour
    /\ ret = "1 day"

C8_WitnessMinutes ==
    /\ op = "ageModifier"
    /\ args.val.started.kind = "date"
    /\ Elapsed8 = 30 * MsPerMinute
    /\ ret = "30 minutes"

\* The objects of the sequence that are not running and have a waiting
\* reason.
Waiting ==
    {i \in 1..Len(args.val) :
        /\ ~args.val[i].isNull
        /\ ~args.val[i].running
        /\ args.val[i].reason \in {"CrashLoopBackOff", "ContainerCreating"}}

\* C10: the Status modifier gives the reason of the LAST object that has no
\* state.running and has a non-empty state.waiting.reason, and "Running"
\* when there is none (the empty sequence included): objects with
\* state.running are skipped and each remaining reason overwrites the
\* result.
C10_LastWaitingReasonWins ==
    op = "statusModifier" =>
        ret = (IF Waiting = {}
               THEN "Running"
               ELSE args.val[Max(Waiting)].reason)

C10_Witness ==
    /\ op = "statusModifier"
    /\ Len(args.val) = 3
    /\ Waiting = {1, 2}
    /\ args.val[1].reason # args.val[2].reason
    /\ args.val[3].running
    /\ args.val[3].reason = args.val[1].reason
    /\ ret = args.val[2].reason

====
